---- MODULE Spec2Model ----
(***************************************************************************)
(* piper: running one command through the single-command harness, and two  *)
(* commands through Pipe, over the Executor contract.  The orchestration   *)
(* code (harness.run, send, recv, Pipe, pipe.readandwrite, pipe.wait,      *)
(* pipe.run, joinerrs) is modelled statement by statement; the processes,  *)
(* the OS pipes between them and the stream faults are the environment.    *)
(***************************************************************************)
EXTENDS Naturals, Sequences, FiniteSets, TLC

VARIABLES
    pc,      \* position of the calling goroutine (Pipe or harness.run)
    exe,     \* exe[h]: the Executor handle h: endpoints, Start outcome, call log
    proc,    \* proc[h]: the child process behind handle h
    pipes,   \* pipes[h][ep]: the byte pipe behind endpoint ep of handle h
    task,    \* task[t]: the copy/drain/feed goroutine t
    dest,    \* dest[t]: the buffer goroutine t writes (bytes.Buffer / *string)
    faults,  \* stream faults the environment has injected so far
    err,     \* readandwrite's err
    dones,   \* readandwrite's dones
    waiter,  \* waiter[h]: pipe.wait's goroutine that waits on handle h
    werrs,   \* values received from waitchan, in order of receipt
    result,  \* the PipeResult (Pipe) or the returned triple (harness)
    hcfg,    \* harness: which of stdin/stdout/stderr the caller requested
    herrs    \* harness.run's errs slice: the signals received so far

vars == <<pc, exe, proc, pipes, task, dest, faults, err, dones, waiter, werrs,
          result, hcfg, herrs>>

(***************************************************************************)
(* Bounds of the model.                                                    *)
(***************************************************************************)
MaxLen == 3      \* longest text a process writes to its output
MaxIn == 2       \* longest input text fed to a command
PipeCap == 1     \* bytes an OS pipe buffers before its writer blocks
MaxFaults == 1   \* stream faults the environment injects in one run
MaxErrs == 3     \* longest list of errors handed to joinerrs

(***************************************************************************)
(* Bytes.  The orchestrator never looks inside a byte, so the k-th byte of *)
(* every stream carries its stream and its position: loss, duplication,    *)
(* reordering and mixing of streams all change the sequence.               *)
(***************************************************************************)
OutBytes == <<"o1", "o2", "o3", "o4", "o5", "o6">>
ErrBytes == <<"e1", "e2", "e3", "e4">>
SnkErrBytes == <<"f1", "f2", "f3", "f4">>
InBytes == <<"i1", "i2", "i3", "i4", "i5", "i6">>

Text(bytes, n) == SubSeq(bytes, 1, n)

\* a process writes nothing, or one byte, to its error-output
ErrLens == {0, 1}

\* s occurs in t as a contiguous run
Contains(t, s) ==
    \E i \in 0..(Len(t) - Len(s)) : SubSeq(t, i + 1, i + Len(s)) = s

(***************************************************************************)
(* Go error values: nil, or an error with a message (a sequence of         *)
(* message fragments, so that wrapping and joining are visible).           *)
(***************************************************************************)
Nil == [nil |-> TRUE, msg |-> <<>>]
NewErr(m) == [nil |-> FALSE, msg |-> m]

\* fmt.Errorf(prefix + "%v", e)
Errorf(prefix, e) == NewErr(<<prefix>> \o e.msg)

\* Executor.Errorf / Launcher.Errorf: the message prefixed with the command
\* (and launcher) it is about
ExeErrorf(h, prefix, e) == NewErr(<<h, prefix>> \o e.msg)

(***************************************************************************)
(* The environment: handles, pipes and child processes.                    *)
(***************************************************************************)
Handles == DOMAIN exe
Tasks == DOMAIN task

\* an Executor as Launch returns it: nothing opened, not started
NewExe == [launched |-> FALSE, out |-> "none", err |-> "none", in |-> "none",
           started |-> "no", calls |-> <<>>]

\* the pipe behind an endpoint: buffered bytes, writer closed, reader gone
NewPipe == [buf |-> <<>>, wclosed |-> FALSE, rgone |-> FALSE]
NewPipes == [out |-> NewPipe, err |-> NewPipe, in |-> NewPipe]

\* a command: "produce" writes outText and exits (echo), "cat" copies its
\* input to its output until end-of-input and exits, "quit" exits without
\* reading its input (true, false); each exits with status zero or non-zero
NewProc(mode, outText, errText) ==
    [st |-> "idle", mode |-> mode, out |-> outText,
     errq |-> errText, wrote |-> <<>>, wroteErr |-> <<>>, got |-> <<>>,
     eof |-> FALSE, killed |-> FALSE, exit |-> "none"]

NewTask == [st |-> "off", err |-> Nil, held |-> <<>>]

\* the k-th call made on handle h
Called(h, op) == \E i \in 1..Len(exe[h].calls) : exe[h].calls[i] = op
CallCount(h, op) == Cardinality({i \in 1..Len(exe[h].calls) : exe[h].calls[i] = op})
LogCall(e, h, op) == [e EXCEPT ![h].calls = Append(@, op)]

\* closing every endpoint still open on handle h (a failed Start, or Wait)
CloseEp(s) == IF s = "open" THEN "closed" ELSE s
CloseAll(e, h) == [e EXCEPT ![h].out = CloseEp(@), ![h].err = CloseEp(@),
                            ![h].in = CloseEp(@)]

\* the process writes the next byte of its output (ep = "out") or of its
\* error-output (ep = "err"): into the pipe when the endpoint was opened
\* (blocking while the pipe is full), to the null device otherwise
ProcWrite(h, ep) ==
    LET q == IF ep = "out" THEN proc[h].out ELSE proc[h].errq IN
    /\ proc[h].st = "running"
    /\ q # <<>>
    /\ IF exe[h][ep] = "none"
       THEN UNCHANGED pipes
       ELSE /\ ~pipes[h][ep].rgone
            /\ Len(pipes[h][ep].buf) < PipeCap
            /\ pipes' = [pipes EXCEPT ![h][ep].buf = Append(@, Head(q))]
    /\ proc' = IF ep = "out"
               THEN [proc EXCEPT ![h].out = Tail(q),
                                 ![h].wrote = Append(@, Head(q))]
               ELSE [proc EXCEPT ![h].errq = Tail(q),
                                 ![h].wroteErr = Append(@, Head(q))]
    /\ UNCHANGED <<pc, exe, task, dest, faults, err, dones, waiter, werrs,
                   result, hcfg, herrs>>

\* a cat reads the next byte of its input, or sees end-of-input (the writer
\* closed the pipe and it is empty; or no input endpoint was opened)
ProcRead(h) ==
    /\ proc[h].st = "running"
    /\ proc[h].mode = "cat"
    /\ ~proc[h].eof
    /\ proc[h].out = <<>>
    /\ IF exe[h].in = "none"
       THEN /\ proc' = [proc EXCEPT ![h].eof = TRUE]
            /\ UNCHANGED pipes
       ELSE IF pipes[h].in.buf # <<>>
       THEN /\ proc' = [proc EXCEPT ![h].out = <<Head(pipes[h].in.buf)>>,
                                    ![h].got = Append(@, Head(pipes[h].in.buf))]
            /\ pipes' = [pipes EXCEPT ![h].in.buf = Tail(@)]
       ELSE /\ pipes[h].in.wclosed
            /\ proc' = [proc EXCEPT ![h].eof = TRUE]
            /\ UNCHANGED pipes
    /\ UNCHANGED <<pc, exe, task, dest, faults, err, dones, waiter, werrs,
                   result, hcfg, herrs>>

\* the process is gone: its ends of the three pipes are closed
Exited(h, c) ==
    /\ proc' = [proc EXCEPT ![h].st = "exited", ![h].exit = c]
    /\ pipes' = [pipes EXCEPT ![h].out.wclosed = TRUE,
                              ![h].err.wclosed = TRUE,
                              ![h].in.rgone = TRUE]
    /\ UNCHANGED <<pc, exe, task, dest, faults, err, dones, waiter, werrs,
                   result, hcfg, herrs>>

ProcFinished(h) ==
    /\ proc[h].out = <<>>
    /\ proc[h].errq = <<>>
    /\ (proc[h].mode = "cat" => proc[h].eof)

Codes == {"zero", "nonzero"}

\* the process exits on its own, having written everything (and, a cat,
\* having read its input to the end)
ProcExit(h) ==
    /\ proc[h].st = "running"
    /\ ProcFinished(h)
    /\ \E c \in Codes : Exited(h, c)

\* a killed process dies (some time after Kill, not at once)
ProcDie(h) ==
    /\ proc[h].st = "running"
    /\ proc[h].killed
    /\ Exited(h, "killed")

\* Executor.Wait's result for an exited process
WaitErr(h) ==
    IF proc[h].exit = "zero" THEN Nil
    ELSE NewErr(<<IF proc[h].exit = "killed" THEN "signal: killed"
                  ELSE "exit status 1">>)

(***************************************************************************)
(* The I/O goroutines.  Pipe: "copy" (readandwrite's io.Copy), "srcerr",   *)
(* "snkout", "snkerr" (copyClose into a bytes.Buffer).  Harness: "stdout", *)
(* "stderr" (copyCloseStr) and "stdin" (copyClose from the input string).  *)
(***************************************************************************)
PipeTasks == {"copy", "srcerr", "snkout", "snkerr"}
HarnessTasks == {"stdout", "stderr", "stdin"}

\* the endpoint a goroutine reads
MutTaskFromSwapped(t) ==
    CASE t = "copy" -> <<"src", "out">>
      [] t = "srcerr" -> <<"src", "err">>
      [] t = "snkout" -> <<"snk", "out">>
      [] t = "snkerr" -> <<"snk", "err">>
      [] t = "stdout" -> <<"exe", "err">>
      [] t = "stderr" -> <<"exe", "out">>
TaskFrom(t) ==
    CASE t = "copy" -> <<"src", "out">>
      [] t = "srcerr" -> <<"src", "err">>
      [] t = "snkout" -> <<"snk", "out">>
      [] t = "snkerr" -> <<"snk", "err">>
      [] t = "stdout" -> <<"exe", "out">>
      [] t = "stderr" -> <<"exe", "err">>

\* the endpoint a goroutine writes
TaskTo(t) ==
    CASE t = "copy" -> <<"snk", "in">>
      [] t = "stdin" -> <<"exe", "in">>

ReadingTasks == {"copy", "srcerr", "snkout", "snkerr", "stdout", "stderr"}
WritingTasks == {"copy", "stdin"}
\* copyCloseStr copies into a local buffer and assigns *dest when the copy ends
LocalBufTasks == {"stdout", "stderr"}

\* io.Copy returned e: the goroutine goes on to its send on the channel;
\* copyCloseStr first stores what it read in *dest
Finish(t, e) ==
    /\ task' = [task EXCEPT ![t].st = "send", ![t].err = e]
    /\ dest' = IF t \in LocalBufTasks THEN [dest EXCEPT ![t] = task[t].held]
               ELSE dest

\* io.Copy reads: the next byte, or end-of-stream once the writer closed
TaskRead(t) ==
    LET h == TaskFrom(t)[1]
        ep == TaskFrom(t)[2]
        p == pipes[h][ep]
    IN
    /\ t \in ReadingTasks
    /\ task[t].st = "run"
    /\ t = "copy" => task[t].held = <<>>
    /\ IF p.buf # <<>>
       THEN /\ pipes' = [pipes EXCEPT ![h][ep].buf = Tail(@)]
            /\ IF t = "copy" \/ t \in LocalBufTasks
               THEN /\ task' = [task EXCEPT ![t].held = Append(@, Head(p.buf))]
                    /\ UNCHANGED dest
               ELSE /\ dest' = [dest EXCEPT ![t] = Append(@, Head(p.buf))]
                    /\ UNCHANGED task
       ELSE /\ p.wclosed
            /\ Finish(t, Nil)
            /\ UNCHANGED pipes
    /\ UNCHANGED <<pc, exe, proc, faults, err, dones, waiter, werrs, result,
                   hcfg, herrs>>

\* io.Copy reads an endpoint that the handle has closed (a failed Start, or
\* Wait called before the stream was drained): the read fails
TaskReadClosed(t) ==
    /\ t \in ReadingTasks
    /\ task[t].st = "run"
    /\ exe[TaskFrom(t)[1]][TaskFrom(t)[2]] = "closed"
    /\ Finish(t, NewErr(<<"file already closed">>))
    /\ UNCHANGED <<pc, exe, proc, pipes, faults, err, dones, waiter, werrs,
                   result, hcfg, herrs>>

\* io.Copy writes the next byte it holds: it blocks while the pipe is full
\* and fails when the reading process is gone or the endpoint is closed
TaskWrite(t) ==
    LET h == TaskTo(t)[1]
        ep == TaskTo(t)[2]
        p == pipes[h][ep]
    IN
    /\ t \in WritingTasks
    /\ task[t].st = "run"
    /\ task[t].held # <<>>
    /\ IF p.rgone \/ exe[h][ep] = "closed"
       THEN /\ Finish(t, NewErr(<<"broken pipe">>))
            /\ UNCHANGED pipes
       ELSE /\ Len(p.buf) < PipeCap
            /\ pipes' = [pipes EXCEPT ![h][ep].buf = Append(@, Head(task[t].held))]
            /\ task' = [task EXCEPT ![t].held = Tail(@)]
            /\ UNCHANGED dest
    /\ UNCHANGED <<pc, exe, proc, faults, err, dones, waiter, werrs, result,
                   hcfg, herrs>>

\* the feed's io.Copy has written the whole input string
FeedEnd(t) ==
    /\ t = "stdin"
    /\ task[t].st = "run"
    /\ task[t].held = <<>>
    /\ Finish(t, Nil)
    /\ UNCHANGED <<pc, exe, proc, pipes, faults, err, dones, waiter, werrs,
                   result, hcfg, herrs>>

\* the Read or Write io.Copy is about to make would not block
ReadReady(t) ==
    /\ t \in ReadingTasks
    /\ t = "copy" => task[t].held = <<>>
    /\ LET p == pipes[TaskFrom(t)[1]][TaskFrom(t)[2]] IN p.buf # <<>> \/ p.wclosed

WriteReady(t) ==
    /\ t \in WritingTasks
    /\ task[t].held # <<>>
    /\ LET p == pipes[TaskTo(t)[1]][TaskTo(t)[2]] IN p.rgone \/ Len(p.buf) < PipeCap

\* a stream fault: the Read or Write under io.Copy returns an error
TaskFault(t) ==
    /\ task[t].st = "run"
    /\ ReadReady(t) \/ WriteReady(t)
    /\ faults < MaxFaults
    /\ faults' = faults + 1
    /\ Finish(t, NewErr(<<"io fault">>))
    /\ UNCHANGED <<pc, exe, proc, pipes, err, dones, waiter, werrs, result,
                   hcfg, herrs>>

(***************************************************************************)
(* joinerrs: nil if all errs are nil, otherwise the messages of the        *)
(* non-nil errs, each preceded by sep, with the first sep cut off.         *)
(***************************************************************************)
RECURSIVE JoinStr(_, _)
JoinStr(sep, errs) ==
    IF errs = <<>> THEN <<>>
    ELSE (IF Head(errs).nil THEN <<>> ELSE sep \o Head(errs).msg)
         \o JoinStr(sep, Tail(errs))

MutJoinKeepsFirstSep(sep, errs) ==
    LET errstr == JoinStr(sep, errs) IN
    IF Len(errstr) > 0 THEN NewErr(errstr) ELSE Nil
joinerrs(sep, errs) ==
    LET errstr == JoinStr(sep, errs) IN
    IF Len(errstr) > 0
    THEN NewErr(SubSeq(errstr, Len(sep) + 1, Len(errstr)))
    ELSE Nil

(***************************************************************************)
(* Pipe: setup of the two sides.                                           *)
(***************************************************************************)
ZeroPipeResult == [SrcStderr |-> <<>>, SnkStderr |-> <<>>, SnkStdout |-> <<>>,
                   Err |-> Nil]

\* return PipeResult{Err: e}
ReturnErr(e) ==
    /\ result' = [ZeroPipeResult EXCEPT !.Err = e]
    /\ pc' = "done"

\* recv failed after send succeeded: the error is the one Pipe will return,
\* after the source has been shut down
RecvFailed(e) ==
    /\ result' = [ZeroPipeResult EXCEPT !.Err = e]
    /\ pc' = "Cleanup1"

Fail(h, e) == IF h = "src" THEN ReturnErr(e) ELSE RecvFailed(e)

\* srclch.LaunchCmd() / snklch.LaunchCmd()
Launch(h, here, next, what) ==
    /\ pc = here
    /\ \E ok \in BOOLEAN :
         IF ok
         THEN /\ exe' = [exe EXCEPT ![h].launched = TRUE]
              /\ pc' = next
              /\ UNCHANGED result
         ELSE /\ ReturnErr(ExeErrorf(h, what, NewErr(<<"launch failed">>)))
              /\ UNCHANGED exe
    /\ UNCHANGED <<proc, pipes, task, dest, faults, err, dones, waiter, werrs,
                   hcfg, herrs>>

\* pipesout: exe.StdoutPipe()
StdoutPipe(h, here, next) ==
    /\ pc = here
    /\ \E ok \in BOOLEAN :
         IF ok
         THEN /\ exe' = [exe EXCEPT ![h].out = "open"]
              /\ pc' = next
              /\ UNCHANGED result
         ELSE /\ Fail(h, ExeErrorf(h, "error opening stdout pipe: ",
                                   NewErr(<<"open failed">>)))
              /\ UNCHANGED exe
    /\ UNCHANGED <<proc, pipes, task, dest, faults, err, dones, waiter, werrs,
                   hcfg, herrs>>

\* pipesout: exe.StderrPipe(); on failure pstdout.Close()
StderrPipe(h, here, next) ==
    /\ pc = here
    /\ \E ok \in BOOLEAN :
         IF ok
         THEN /\ exe' = [exe EXCEPT ![h].err = "open"]
              /\ pc' = next
              /\ UNCHANGED <<result, pipes>>
         ELSE /\ exe' = [exe EXCEPT ![h].out = "closed"]
              /\ pipes' = [pipes EXCEPT ![h].out.rgone = TRUE]
              /\ Fail(h, ExeErrorf(h, "error opening stderr pipe: ",
                                   NewErr(<<"open failed">>)))
    /\ UNCHANGED <<proc, task, dest, faults, err, dones, waiter, werrs,
                   hcfg, herrs>>

\* recv: exe.StdinPipe(); on failure recv returns at once
StdinPipe(h, here, next) ==
    /\ pc = here
    /\ \E ok \in BOOLEAN :
         IF ok
         THEN /\ exe' = [exe EXCEPT ![h].in = "open"]
              /\ pc' = next
              /\ UNCHANGED result
         ELSE /\ Fail(h, ExeErrorf(h, "error creating stdin pipe: ",
                                   NewErr(<<"open failed">>)))
              /\ UNCHANGED exe
    /\ UNCHANGED <<proc, pipes, task, dest, faults, err, dones, waiter, werrs,
                   hcfg, herrs>>

\* the goroutines send and recv start once Start has succeeded
Spawned(h) == IF h = "src" THEN {"srcerr"} ELSE {"snkerr", "snkout"}

\* send / recv: exe.Start(), then go copyClose(...).  A Start that fails
\* closes the endpoints the handle opened.
Start(h, here, next, what) ==
    /\ pc = here
    /\ \E ok \in BOOLEAN :
         IF ok
         THEN /\ exe' = [LogCall(exe, h, "Start") EXCEPT ![h].started = "ok"]
              /\ proc' = [proc EXCEPT ![h].st = "running"]
              /\ task' = [t \in Tasks |->
                            IF t \in Spawned(h)
                            THEN [task[t] EXCEPT !.st = "run"] ELSE task[t]]
              /\ pc' = next
              /\ UNCHANGED <<result, pipes>>
         ELSE /\ exe' = [CloseAll(LogCall(exe, h, "Start"), h)
                           EXCEPT ![h].started = "failed"]
              /\ pipes' = [pipes EXCEPT ![h].out.rgone = TRUE,
                                        ![h].err.rgone = TRUE,
                                        ![h].in.wclosed = TRUE]
              /\ Fail(h, ExeErrorf(h, what, NewErr(<<"start failed">>)))
              /\ UNCHANGED <<proc, task>>
    /\ UNCHANGED <<dest, faults, err, dones, waiter, werrs, hcfg, herrs>>

LaunchSrc == Launch("src", "LaunchSrc", "LaunchSnk", "error creating pipe source: ")
LaunchSnk == Launch("snk", "LaunchSnk", "SrcStdoutPipe", "error creating pipe sink: ")
SrcStdoutPipe == StdoutPipe("src", "SrcStdoutPipe", "SrcStderrPipe")
SrcStderrPipe == StderrPipe("src", "SrcStderrPipe", "SrcStart")
SrcStart == Start("src", "SrcStart", "SnkStdoutPipe", "error starting pipe source: ")
SnkStdoutPipe == StdoutPipe("snk", "SnkStdoutPipe", "SnkStderrPipe")
SnkStderrPipe == StderrPipe("snk", "SnkStderrPipe", "SnkStdinPipe")
SnkStdinPipe == StdinPipe("snk", "SnkStdinPipe", "SnkStart")
SnkStart == Start("snk", "SnkStart", "Copy", "error starting pipe sink: ")

\* Pipe's shutdown of the source after recv failed: the i-th call it makes
MutCleanupKillOnly(i) == "Kill"
MutCleanupWaitFirst(i) == IF i = 1 THEN "Wait" ELSE "Kill"
CleanupOp(i) == IF i = 1 THEN "Kill" ELSE "Wait"

\* Executor.Kill on handle h: it terminates the running process, or fails
\* (the process is gone already, or the signal could not be delivered); the
\* callers discard the error it returns
DoKill(h) ==
    /\ exe' = LogCall(exe, h, "Kill")
    /\ \E ok \in BOOLEAN :
         proc' = IF ok /\ proc[h].st = "running"
                 THEN [proc EXCEPT ![h].killed = TRUE]
                 ELSE proc

\* _ = src.exe.Kill(); _ = src.exe.Wait(); return PipeResult{Err: err}
Cleanup(i) ==
    /\ pc = (IF i = 1 THEN "Cleanup1" ELSE "Cleanup2")
    /\ IF CleanupOp(i) = "Kill"
       THEN /\ DoKill("src")
            /\ pc' = (IF i = 1 THEN "Cleanup2" ELSE "done")
       ELSE /\ exe' = LogCall(exe, "src", "Wait")
            /\ pc' = (IF i = 1 THEN "CleanupRet1" ELSE "CleanupRet2")
            /\ UNCHANGED proc
    /\ UNCHANGED <<pipes, task, dest, faults, err, dones, waiter, werrs,
                   result, hcfg, herrs>>

\* _ = src.exe.Wait(): what Wait returned is dropped, the PipeResult to
\* return stays the one built from recv's error
MutMergesCleanupError(res, waiterr) ==
    [res EXCEPT !.Err = joinerrs(<<"; ">>, <<res.Err, waiterr>>)]
CleanupResult(res, waiterr) == res

\* src.exe.Wait() returns once the source process is gone; Wait releases the
\* handle's endpoints
CleanupWaitRet(i) ==
    /\ pc = (IF i = 1 THEN "CleanupRet1" ELSE "CleanupRet2")
    /\ proc["src"].st = "exited"
    /\ exe' = CloseAll(LogCall(exe, "src", "WaitRet"), "src")
    /\ result' = CleanupResult(result, WaitErr("src"))
    /\ pc' = (IF i = 1 THEN "Cleanup2" ELSE "done")
    /\ UNCHANGED <<proc, pipes, task, dest, faults, err, dones, waiter, werrs,
                   hcfg, herrs>>

(***************************************************************************)
(* pipe.readandwrite: the connecting copy and the collect loop.            *)
(***************************************************************************)
\* go func() { _, err := io.Copy(p.snk.stdin, p.src.stdout); errs <- err }()
Copy ==
    /\ pc = "Copy"
    /\ task' = [task EXCEPT !["copy"].st = "run"]
    /\ err' = Nil
    /\ dones' = 0
    /\ pc' = "collect"
    /\ UNCHANGED <<exe, proc, pipes, dest, faults, waiter, werrs, result,
                   hcfg, herrs>>

\* the number of signals the collect loop takes: for dones < 4
MutStopsOneEarly == Cardinality(PipeTasks) - 1
NeedDones == 4

\* what one case of the select leaves in err, given the value e received
\* from goroutine t's channel
CollectErr(t, old, e) ==
    CASE t = "copy" -> IF e.nil THEN e ELSE Errorf("error piping: ", e)
      [] t = "srcerr" -> IF e.nil THEN old ELSE Errorf("source error: ", e)
      [] OTHER -> IF e.nil THEN old ELSE Errorf("sink error: ", e)

\* the case of the select that goes on to p.snk.stdin.Close()
MutClosesOnSinkOutput(t) == t = "snkout"
ClosesSinkStdin(t) == t = "copy"

\* one iteration of the select loop: a goroutine's send meets the receive;
\* the copy's case also closes the sink's input endpoint
Collect(t) ==
    /\ pc = "collect"
    /\ t \in PipeTasks
    /\ task[t].st = "send"
    /\ err' = CollectErr(t, err, task[t].err)
    /\ dones' = dones + 1
    /\ task' = [task EXCEPT ![t].st = "done"]
    /\ IF ClosesSinkStdin(t)
       THEN /\ exe' = [LogCall(exe, "snk", "CloseStdin") EXCEPT
                         !["snk"].in = "closed"]
            /\ pipes' = [pipes EXCEPT !["snk"].in.wclosed = TRUE]
       ELSE UNCHANGED <<exe, pipes>>
    /\ pc' = IF dones + 1 < NeedDones THEN "collect" ELSE "wait"
    /\ UNCHANGED <<proc, dest, faults, waiter, werrs, result, hcfg, herrs>>

(***************************************************************************)
(* pipe.wait and pipe.run.                                                 *)
(***************************************************************************)
\* the two goroutines of pipe.wait are started
Wait ==
    /\ pc = "wait"
    /\ waiter' = [h \in Handles |-> [st |-> "call", err |-> Nil]]
    /\ pc' = "waitrecv"
    /\ UNCHANGED <<exe, proc, pipes, task, dest, faults, err, dones, werrs,
                   result, hcfg, herrs>>

\* err := p.src.exe.Wait() / p.snk.exe.Wait() is called
WaiterCall(h) ==
    /\ waiter[h].st = "call"
    /\ exe' = LogCall(exe, h, "Wait")
    /\ waiter' = [waiter EXCEPT ![h].st = "blocked"]
    /\ UNCHANGED <<pc, proc, pipes, task, dest, faults, err, dones, werrs,
                   result, hcfg, herrs>>

\* whether the sink's waiter goes on to p.src.exe.Kill()
MutNeverKills(h, e) == FALSE
KillsSource(h, e) == h = "snk" /\ ~e.nil

WaitPrefix(h) == IF h = "src" THEN "source exited with error: "
                 ELSE "sink exited with error: "

\* Wait returns once the process is gone
WaiterRet(h) ==
    /\ waiter[h].st = "blocked"
    /\ proc[h].st = "exited"
    /\ exe' = CloseAll(LogCall(exe, h, "WaitRet"), h)
    /\ waiter' = [waiter EXCEPT
                    ![h].err = IF WaitErr(h).nil THEN Nil
                               ELSE Errorf(WaitPrefix(h), WaitErr(h)),
                    ![h].st = IF KillsSource(h, WaitErr(h)) THEN "kill"
                              ELSE "send"]
    /\ UNCHANGED <<pc, proc, pipes, task, dest, faults, err, dones, werrs,
                   result, hcfg, herrs>>

\* p.src.exe.Kill() in the sink's waiter
WaiterKill ==
    /\ waiter["snk"].st = "kill"
    /\ DoKill("src")
    /\ waiter' = [waiter EXCEPT !["snk"].st = "send"]
    /\ UNCHANGED <<pc, pipes, task, dest, faults, err, dones, werrs, result,
                   hcfg, herrs>>

\* pipe.run: the PipeResult built from the two errors and the three buffers
MutSwapSinkBuffers(rwerr, waiterr) ==
    [SrcStderr |-> dest["srcerr"], SnkStderr |-> dest["snkout"],
     SnkStdout |-> dest["snkerr"],
     Err |-> joinerrs(<<"; ">>, <<rwerr, waiterr>>)]
RunResult(rwerr, waiterr) ==
    [SrcStderr |-> dest["srcerr"], SnkStderr |-> dest["snkerr"],
     SnkStdout |-> dest["snkout"],
     Err |-> joinerrs(<<"; ">>, <<rwerr, waiterr>>)]

\* joinerrs("; ", <-waitchan, <-waitchan): one receive; after the second,
\* pipe.wait returns and pipe.run assembles the result
WaitRecv(h) ==
    /\ pc = "waitrecv"
    /\ waiter[h].st = "send"
    /\ waiter' = [waiter EXCEPT ![h].st = "done"]
    /\ werrs' = Append(werrs, waiter[h].err)
    /\ IF Len(werrs) + 1 = 2
       THEN /\ result' = RunResult(err, joinerrs(<<"; ">>, Append(werrs, waiter[h].err)))
            /\ pc' = "done"
       ELSE UNCHANGED <<pc, result>>
    /\ UNCHANGED <<exe, proc, pipes, task, dest, faults, err, dones, hcfg,
                   herrs>>

(***************************************************************************)
(* Pipe(srclch, snklch) as a state machine.                                *)
(***************************************************************************)
InitPipe ==
    /\ pc = "LaunchSrc"
    /\ exe = [h \in {"src", "snk"} |-> NewExe]
    /\ \E n \in 0..MaxLen, m \in ErrLens, k \in ErrLens,
          mode \in {"cat", "quit"} :
         proc = [h \in {"src", "snk"} |->
                   IF h = "src"
                   THEN NewProc("produce", Text(OutBytes, n), Text(ErrBytes, m))
                   ELSE NewProc(mode, <<>>, Text(SnkErrBytes, k))]
    /\ pipes = [h \in {"src", "snk"} |-> NewPipes]
    /\ task = [t \in PipeTasks |-> NewTask]
    /\ dest = [t \in PipeTasks |-> <<>>]
    /\ faults = 0
    /\ err = Nil
    /\ dones = 0
    /\ waiter = [h \in {"src", "snk"} |-> [st |-> "off", err |-> Nil]]
    /\ werrs = <<>>
    /\ result = ZeroPipeResult
    /\ hcfg = [stdin |-> FALSE, stdout |-> FALSE, stderr |-> FALSE, input |-> <<>>]
    /\ herrs = <<>>

NextPipe ==
    \/ LaunchSrc \/ LaunchSnk
    \/ SrcStdoutPipe \/ SrcStderrPipe \/ SrcStart
    \/ SnkStdoutPipe \/ SnkStderrPipe \/ SnkStdinPipe \/ SnkStart
    \/ \E i \in 1..2 : Cleanup(i)
    \/ \E i \in 1..2 : CleanupWaitRet(i)
    \/ Copy
    \/ \E t \in PipeTasks : Collect(t)
    \/ Wait
    \/ \E h \in Handles : WaiterCall(h)
    \/ \E h \in Handles : WaiterRet(h)
    \/ WaiterKill
    \/ \E h \in Handles : WaitRecv(h)
    \/ \E h \in Handles : ProcWrite(h, "out")
    \/ \E h \in Handles : ProcWrite(h, "err")
    \/ \E h \in Handles : ProcRead(h)
    \/ \E h \in Handles : ProcExit(h)
    \/ \E h \in Handles : ProcDie(h)
    \/ \E t \in PipeTasks : TaskRead(t)
    \/ \E t \in PipeTasks : TaskReadClosed(t)
    \/ \E t \in PipeTasks : TaskWrite(t)
    \/ \E t \in PipeTasks : TaskFault(t)

SpecPipe == InitPipe /\ [][NextPipe]_vars

FairSpecPipe == SpecPipe /\ WF_vars(NextPipe)

(***************************************************************************)
(* The single-command harness: RunCmd, RunCmdStrIn, RunCmdCapture,         *)
(* RunCmdStrInCapture and harness.run.                                     *)
(***************************************************************************)
\* what each form sets on the harness: h.stdin, h.stdout, h.stderr
RunCmd == [stdin |-> FALSE, stdout |-> FALSE, stderr |-> FALSE]
RunCmdStrIn == [stdin |-> TRUE, stdout |-> FALSE, stderr |-> FALSE]
RunCmdCapture == [stdin |-> FALSE, stdout |-> TRUE, stderr |-> TRUE]
RunCmdStrInCapture == [stdin |-> TRUE, stdout |-> TRUE, stderr |-> TRUE]
Forms == {RunCmd, RunCmdStrIn, RunCmdCapture, RunCmdStrInCapture}

ZeroHarnessResult == [stdout |-> <<>>, stderr |-> <<>>, err |-> Nil]

\* harness.run returns e; the capture forms return with it the strings the
\* drains have stored so far
HReturn(e, d) ==
    /\ result' = [stdout |-> d["stdout"], stderr |-> d["stderr"], err |-> e]
    /\ pc' = "done"

\* startCmd: lch.Launch(cmd)
HLaunch ==
    /\ pc = "HLaunch"
    /\ \E ok \in BOOLEAN :
         IF ok
         THEN /\ exe' = [exe EXCEPT !["exe"].launched = TRUE]
              /\ pc' = "HStdout"
              /\ UNCHANGED result
         ELSE /\ HReturn(ExeErrorf("exe", "error starting: ",
                                   NewErr(<<"launch failed">>)), dest)
              /\ UNCHANGED exe
    /\ UNCHANGED <<proc, pipes, task, dest, faults, err, dones, waiter, werrs,
                   hcfg, herrs>>

\* the endpoints opened so far that harness.run closes when a later open fails
MutClosesStdoutOnly(ep) == IF ep = "out" THEN {} ELSE {"out"}
ClosedOnOpenFailure(ep) ==
    CASE ep = "out" -> {}
      [] ep = "err" -> {"out"}
      [] ep = "in" -> {"out", "err"}

HTaskOf(ep) == CASE ep = "out" -> "stdout" [] ep = "err" -> "stderr"
                 [] ep = "in" -> "stdin"

HRequested(ep) == CASE ep = "out" -> hcfg.stdout [] ep = "err" -> hcfg.stderr
                    [] ep = "in" -> hcfg.stdin

\* the Executor method that opens endpoint ep
OpenCall(ep) == CASE ep = "out" -> "StdoutPipe" [] ep = "err" -> "StderrPipe"
                  [] ep = "in" -> "StdinPipe"

\* one "if h.<stream> != nil" block of harness.run: open the endpoint and
\* start its goroutine, or close what was opened and return
HOpen(ep, here, next, what) ==
    /\ pc = here
    /\ IF ~HRequested(ep)
       THEN /\ pc' = next
            /\ UNCHANGED <<exe, pipes, task, result>>
       ELSE \E ok \in BOOLEAN :
              IF ok
              THEN /\ exe' = [LogCall(exe, "exe", OpenCall(ep)) EXCEPT
                                !["exe"][ep] = "open"]
                   /\ task' = [task EXCEPT ![HTaskOf(ep)].st = "run",
                                           ![HTaskOf(ep)].held =
                                               IF ep = "in" THEN hcfg.input ELSE <<>>]
                   /\ pc' = next
                   /\ UNCHANGED <<pipes, result>>
              ELSE /\ exe' = [LogCall(exe, "exe", OpenCall(ep)) EXCEPT !["exe"] =
                                [e \in DOMAIN exe["exe"] |->
                                   IF e \in ClosedOnOpenFailure(ep)
                                   THEN CloseEp(exe["exe"][e]) ELSE @[e]]]
                   /\ pipes' = [pipes EXCEPT !["exe"] =
                                  [e \in DOMAIN pipes["exe"] |->
                                     IF e \in ClosedOnOpenFailure(ep)
                                        /\ exe["exe"][e] = "open"
                                     THEN [pipes["exe"][e] EXCEPT !.rgone = TRUE]
                                     ELSE pipes["exe"][e]]]
                   /\ HReturn(ExeErrorf("exe", what, NewErr(<<"open failed">>)), dest)
                   /\ UNCHANGED task
    /\ UNCHANGED <<proc, dest, faults, err, dones, waiter, werrs, hcfg, herrs>>

HStdout == HOpen("out", "HStdout", "HStderr", "error opening stdout pipe: ")
HStderr == HOpen("err", "HStderr", "HStdin", "error opening stderr pipe: ")
HStdin == HOpen("in", "HStdin", "HStart", "error opening stdin pipe: ")

\* len(errs): the number of signals the collect loop takes
MutCountsDrainsOnly == Cardinality({ep \in {"out", "err"} : HRequested(ep)})
NumTasks == Cardinality({ep \in {"out", "err", "in"} : HRequested(ep)})

\* h.exe.Start(); a Start that fails closes the endpoints the handle opened
HStart ==
    /\ pc = "HStart"
    /\ \E ok \in BOOLEAN :
         IF ok
         THEN /\ exe' = [LogCall(exe, "exe", "Start") EXCEPT !["exe"].started = "ok"]
              /\ proc' = [proc EXCEPT !["exe"].st = "running"]
              /\ pc' = IF NumTasks = 0 THEN "HWait" ELSE "HCollect"
              /\ UNCHANGED <<result, pipes>>
         ELSE /\ exe' = [CloseAll(LogCall(exe, "exe", "Start"), "exe")
                           EXCEPT !["exe"].started = "failed"]
              /\ pipes' = [pipes EXCEPT !["exe"].out.rgone = TRUE,
                                        !["exe"].err.rgone = TRUE,
                                        !["exe"].in.wclosed = TRUE]
              /\ HReturn(ExeErrorf("exe", "error starting: ",
                                   NewErr(<<"start failed">>)), dest)
              /\ UNCHANGED proc
    /\ UNCHANGED <<task, dest, faults, err, dones, waiter, werrs, hcfg, herrs>>

\* what a goroutine does after its send on errchan was received: the feed
\* goes on to pstdin.Close(), a drain is finished
MutFeedNeverCloses(t) == "done"
AfterSend(t) == IF t = "stdin" THEN "close" ELSE "done"

\* errs[i] = <-errchan
HCollect(t) ==
    /\ pc = "HCollect"
    /\ t \in HarnessTasks
    /\ task[t].st = "send"
    /\ herrs' = Append(herrs, task[t].err)
    /\ task' = [task EXCEPT ![t].st = AfterSend(t)]
    /\ pc' = IF Len(herrs) + 1 < NumTasks THEN "HCollect" ELSE "HWait"
    /\ UNCHANGED <<exe, proc, pipes, dest, faults, err, dones, waiter, werrs,
                   result, hcfg>>

\* pstdin.Close() in the feed goroutine
FeedClose ==
    /\ task["stdin"].st = "close"
    /\ task' = [task EXCEPT !["stdin"].st = "done"]
    /\ exe' = [exe EXCEPT !["exe"].in = "closed"]
    /\ pipes' = [pipes EXCEPT !["exe"].in.wclosed = TRUE]
    /\ UNCHANGED <<pc, proc, dest, faults, err, dones, waiter, werrs, result,
                   hcfg, herrs>>

\* err = h.exe.Wait() is called
HWait ==
    /\ pc = "HWait"
    /\ exe' = LogCall(exe, "exe", "Wait")
    /\ pc' = "HWaitRet"
    /\ UNCHANGED <<proc, pipes, task, dest, faults, err, dones, waiter, werrs,
                   result, hcfg, herrs>>

RECURSIVE MutLastNonNil(_)
MutLastNonNil(errs) ==
    IF errs = <<>> THEN Nil
    ELSE IF ~errs[Len(errs)].nil THEN errs[Len(errs)]
    ELSE MutLastNonNil(SubSeq(errs, 1, Len(errs) - 1))
RECURSIVE FirstNonNil(_)
FirstNonNil(errs) ==
    IF errs = <<>> THEN Nil
    ELSE IF ~Head(errs).nil THEN Head(errs) ELSE FirstNonNil(Tail(errs))

\* the error harness.run returns after Wait
MutTaskErrorsOnly(werr, errs) == FirstNonNil(errs)
HarnessErr(werr, errs) ==
    IF ~werr.nil THEN ExeErrorf("exe", "completed with error: ", werr)
    ELSE FirstNonNil(errs)

\* Wait returns once the process is gone; harness.run returns
HWaitRet ==
    /\ pc = "HWaitRet"
    /\ proc["exe"].st = "exited"
    /\ exe' = CloseAll(LogCall(exe, "exe", "WaitRet"), "exe")
    /\ HReturn(HarnessErr(WaitErr("exe"), herrs), dest)
    /\ UNCHANGED <<proc, pipes, task, dest, faults, err, dones, waiter, werrs,
                   hcfg, herrs>>

InitHarness ==
    /\ pc = "HLaunch"
    /\ exe = [h \in {"exe"} |-> NewExe]
    /\ \E n \in 0..MaxLen, m \in ErrLens, mode \in {"produce", "cat", "quit"} :
         proc = [h \in {"exe"} |->
                   NewProc(mode, IF mode = "produce" THEN Text(OutBytes, n) ELSE <<>>,
                           Text(ErrBytes, m))]
    /\ pipes = [h \in {"exe"} |-> NewPipes]
    /\ task = [t \in HarnessTasks |-> NewTask]
    /\ dest = [t \in HarnessTasks |-> <<>>]
    /\ faults = 0
    /\ err = Nil
    /\ dones = 0
    /\ waiter = [h \in {"exe"} |-> [st |-> "off", err |-> Nil]]
    /\ werrs = <<>>
    /\ result = ZeroHarnessResult
    /\ \E f \in Forms, k \in 0..MaxIn :
         hcfg = [stdin |-> f.stdin, stdout |-> f.stdout, stderr |-> f.stderr,
                 input |-> IF f.stdin THEN Text(InBytes, k) ELSE <<>>]
    /\ herrs = <<>>

NextHarness ==
    \/ HLaunch \/ HStdout \/ HStderr \/ HStdin \/ HStart
    \/ \E t \in HarnessTasks : HCollect(t)
    \/ FeedClose
    \/ HWait
    \/ HWaitRet
    \/ ProcWrite("exe", "out")
    \/ ProcWrite("exe", "err")
    \/ ProcRead("exe")
    \/ ProcExit("exe")
    \/ \E t \in HarnessTasks : TaskRead(t)
    \/ \E t \in HarnessTasks : TaskReadClosed(t)
    \/ \E t \in HarnessTasks : TaskWrite(t)
    \/ FeedEnd("stdin")
    \/ \E t \in HarnessTasks : TaskFault(t)

SpecHarness == InitHarness /\ [][NextHarness]_vars

FairSpecHarness == SpecHarness /\ WF_vars(NextHarness)

(***************************************************************************)
(* joinerrs on its own: one call, on any list of errors.  Strings are      *)
(* sequences of characters here; a message may be empty and may contain    *)
(* the separator.                                                          *)
(***************************************************************************)
\* the separators of the calls: "; " (pipe.wait, pipe.run) and ";"
Seps == {<<";", " ">>, <<";">>}
\* error values: nil, and errors with the messages "", "a", "b;"
ErrValues == {Nil, NewErr(<<>>), NewErr(<<"a">>), NewErr(<<"b", ";">>)}

RECURSIVE SeqsUpTo(_, _)
SeqsUpTo(S, n) ==
    IF n = 0 THEN {<<>>}
    ELSE LET shorter == SeqsUpTo(S, n - 1) IN
         shorter \cup {Append(q, x) : q \in shorter, x \in S}

\* the caller evaluates joinerrs(sep, errs...)
JoinCall ==
    /\ pc = "join"
    /\ result' = [err |-> joinerrs(hcfg.sep, werrs)]
    /\ pc' = "joined"
    /\ UNCHANGED <<exe, proc, pipes, task, dest, faults, err, dones, waiter,
                   werrs, hcfg, herrs>>

InitJoin ==
    /\ pc = "join"
    /\ exe = <<>> /\ proc = <<>> /\ pipes = <<>> /\ task = <<>> /\ dest = <<>>
    /\ faults = 0
    /\ err = Nil
    /\ dones = 0
    /\ waiter = <<>>
    /\ werrs \in SeqsUpTo(ErrValues, MaxErrs)
    /\ result = [err |-> Nil]
    /\ \E sep \in Seps : hcfg = [sep |-> sep]
    /\ herrs = <<>>

NextJoin == JoinCall

SpecJoin == InitJoin /\ [][NextJoin]_vars

(***************************************************************************)
(* Pipe: the claims.                                                       *)
(***************************************************************************)
PipeMode == "src" \in Handles
BothStarted == PipeMode /\ exe["src"].started = "ok" /\ exe["snk"].started = "ok"
\* Pipe has returned the result of pipe.run
PipeRan == pc = "done" /\ BothStarted
\* each of the four I/O tasks sent a nil error
AllIOClean == \A t \in PipeTasks : task[t].err.nil
\* the premises of the pass-through case: the source wrote its whole text and
\* exited zero, the sink is a cat that read to end-of-input and exited zero
PassThrough ==
    /\ PipeRan
    /\ proc["src"].exit = "zero" /\ proc["src"].out = <<>>
    /\ proc["snk"].mode = "cat" /\ proc["snk"].eof /\ proc["snk"].exit = "zero"

\* C1 as stated: in the pass-through case, SnkStdout is the text T the source
\* wrote and Err is nil
C1_Original ==
    PassThrough =>
        /\ result.SnkStdout = proc["src"].wrote
        /\ result.Err.nil

\* C1 (amended): in the pass-through case, when each of the four I/O tasks
\* completed with a nil error, SnkStdout is exactly the text T the source
\* wrote (same bytes, same order) and Err is nil
C1_PassThrough ==
    (PassThrough /\ AllIOClean) =>
        /\ result.SnkStdout = proc["src"].wrote
        /\ result.Err.nil

C1_Witness ==
    /\ PassThrough /\ AllIOClean
    /\ Len(proc["src"].wrote) = MaxLen
    /\ result.SnkStdout = Text(OutBytes, MaxLen)
    /\ result.SnkStderr # <<>>

\* C2: when Pipe returns the result of pipe.run with a nil Err, both Waits
\* returned nil and each of the four I/O tasks completed with a nil error
C2_ErrNilOnlyIfAllSix ==
    (PipeRan /\ result.Err.nil) =>
        /\ \A h \in Handles : WaitErr(h).nil
        /\ \A t \in PipeTasks : task[t].err.nil

PipeStuck == ~ENABLED NextPipe

\* C4: with both sides started, the sink process gone and no stream fault,
\* Pipe does not stop before it has returned its PipeResult
C4_PipeReturns ==
    (BothStarted /\ proc["snk"].st = "exited" /\ faults = 0 /\ PipeStuck)
        => pc = "done"

\* C5: when Pipe has returned, Wait has been invoked exactly once on each
\* handle whose Start succeeded and never on any other handle
C5_WaitOncePerStarted ==
    /\ PipeMode =>
         \A h \in Handles :
            /\ CallCount(h, "Wait") <= 1
            /\ Called(h, "Wait") => exe[h].started = "ok"
    /\ (PipeMode /\ pc = "done") =>
         \A h \in Handles :
            CallCount(h, "Wait") = (IF exe[h].started = "ok" THEN 1 ELSE 0)

C5_Witness ==
    /\ PipeMode /\ pc = "done"
    /\ exe["src"].started = "ok" /\ exe["snk"].started = "failed"
    /\ CallCount("src", "Wait") = 1 /\ CallCount("snk", "Wait") = 0

\* sink setup failed after the source's Start succeeded
RecvFailedAfterSend ==
    /\ PipeMode
    /\ exe["src"].started = "ok"
    /\ exe["snk"].started # "ok"
    /\ pc \notin {"SnkStdoutPipe", "SnkStderrPipe", "SnkStdinPipe", "SnkStart"}

\* C6: when sink setup failed after the source's Start succeeded and Pipe has
\* returned, the calls made on the source handle are Start, Kill, Wait, in
\* that order, and that Wait has returned
C6_KillThenWaitOnRecvFailure ==
    (RecvFailedAfterSend /\ pc = "done") =>
        exe["src"].calls = <<"Start", "Kill", "Wait", "WaitRet">>

C6_Witness ==
    /\ RecvFailedAfterSend /\ pc = "done"
    /\ exe["snk"].in = "none" /\ exe["snk"].err = "open"
    /\ exe["src"].calls = <<"Start", "Kill", "Wait", "WaitRet">>
    /\ proc["src"].exit = "killed"

(***************************************************************************)
(* The harness: the claims.                                                *)
(***************************************************************************)
HarnessMode == "exe" \in Handles
\* harness.run went through Start and Wait and has returned
HRan == HarnessMode /\ pc = "done" /\ Called("exe", "WaitRet")
AllTasksClean == \A i \in 1..Len(herrs) : herrs[i].nil

\* C7: for each of the four forms, when the run went through Start and Wait,
\* the returned error is nil if the process exited zero and every drain/feed
\* task completed without error, and non-nil if the process exited non-zero
C7_HarnessError ==
    HRan =>
        /\ (proc["exe"].exit = "zero" /\ AllTasksClean) => result.err.nil
        /\ proc["exe"].exit # "zero" => ~result.err.nil

C7_Witness ==
    /\ HRan
    /\ hcfg.stdin /\ hcfg.stdout
    /\ proc["exe"].exit = "nonzero"
    /\ ~AllTasksClean
    /\ result.err.msg = <<"exe", "completed with error: ", "exit status 1">>

\* C8: when RunCmd's command exits with non-zero status, the error RunCmd
\* returns contains the text the command wrote to its error-output
C8_ErrorIncludesStderr ==
    (HRan /\ ~hcfg.stdin /\ ~hcfg.stdout /\ ~hcfg.stderr
          /\ proc["exe"].exit = "nonzero")
        => Contains(result.err.msg, proc["exe"].wroteErr)

CaptureRan == HRan /\ hcfg.stdout /\ hcfg.stderr
DrainsClean == task["stdout"].err.nil /\ task["stderr"].err.nil

\* C9 as stated: when a capture form's run completes, the returned stdout and
\* stderr are exactly what the process wrote to its output and error-output
C9_Original ==
    CaptureRan =>
        /\ result.stdout = proc["exe"].wrote
        /\ result.stderr = proc["exe"].wroteErr

\* C9 (amended): when a capture form's run completes and both drain tasks
\* completed without error, the returned stdout is exactly what the process
\* wrote to its output and the returned stderr exactly what it wrote to its
\* error-output
C9_Capture ==
    (CaptureRan /\ DrainsClean) =>
        /\ result.stdout = proc["exe"].wrote
        /\ result.stderr = proc["exe"].wroteErr

C9_Witness ==
    /\ CaptureRan /\ DrainsClean
    /\ result.stdout = Text(OutBytes, MaxLen)
    /\ result.stderr = Text(ErrBytes, 1)

InputRun == HarnessMode /\ hcfg.stdin
\* the bytes that have entered the process's input stream
Fed == proc["exe"].got \o pipes["exe"].in.buf
FeedOver == task["stdin"].st \in {"send", "close", "done"}
DrainFailed == ~task["stdout"].err.nil \/ ~task["stderr"].err.nil

C12_WaitErrorWins ==
    HRan =>
        /\ ~WaitErr("exe").nil =>
              result.err = NewErr(<<"exe", "completed with error: ">>
                                  \o WaitErr("exe").msg)
        /\ (WaitErr("exe").nil /\ ~AllTasksClean) =>
              \E i \in 1..Len(herrs) :
                 /\ ~herrs[i].nil
                 /\ \A j \in 1..(i - 1) : herrs[j].nil
                 /\ result.err = herrs[i]
        /\ (WaitErr("exe").nil /\ AllTasksClean) => result.err.nil

\* two tasks failed with different errors and Wait returned nil
C12_Witness ==
    /\ HRan
    /\ WaitErr("exe").nil
    /\ \E i, j \in 1..Len(herrs) :
          /\ i < j
          /\ ~herrs[i].nil /\ ~herrs[j].nil /\ herrs[i] # herrs[j]
          /\ result.err = herrs[i]

(***************************************************************************)
(* Pipe: the collect phase.                                                *)
(***************************************************************************)
\* C15: once the collect loop has recorded a non-nil error, no later signal
\* replaces or erases it
C15_FirstErrorKept ==
    [][(PipeMode /\ pc = "collect" /\ ~err.nil) => err' = err]_vars

\* the completion signals the collect loop has received
Received == {t \in Tasks : task[t].st = "done"}

\* C16: with both sides started, the collect loop has consumed one signal per
\* I/O task received and never more than four in all; and once Wait has been
\* invoked on either handle, all four signals (copy, source error-output,
\* sink output, sink error-output) had been received
C16_FourSignalsBeforeWait ==
    BothStarted =>
        /\ dones = Cardinality(Received)
        /\ dones <= 4
        /\ (\E h \in Handles : Called(h, "Wait")) =>
              (dones = 4 /\ Received = {"copy", "srcerr", "snkout", "snkerr"})

\* both Waits were invoked after a collect phase in which the source
\* error-output drain and the copy both signalled an error
C16_Witness ==
    /\ BothStarted
    /\ Called("src", "Wait") /\ Called("snk", "Wait")
    /\ dones = 4
    /\ ~task["srcerr"].err.nil
    /\ ~task["copy"].err.nil

\* C17: with both sides started, the sink's input endpoint is closed by the
\* collect loop at most once; it has been closed exactly when the connecting
\* copy's completion signal has been received, whatever the other three
\* signals have done; and it is closed once either Wait has been invoked
C17_SinkStdinClosedAtCopySignal ==
    BothStarted =>
        /\ CallCount("snk", "CloseStdin") <= 1
        /\ Called("snk", "CloseStdin") <=> "copy" \in Received
        /\ exe["snk"].in = "closed" <=> "copy" \in Received
        /\ pipes["snk"].in.wclosed <=> "copy" \in Received
        /\ (\E h \in Handles : Called(h, "Wait")) => exe["snk"].in = "closed"

\* the copy stopped on a write error and its signal was the first received
C17_Witness ==
    /\ BothStarted
    /\ Received = {"copy"}
    /\ ~task["copy"].err.nil
    /\ CallCount("snk", "CloseStdin") = 1
    /\ exe["snk"].in = "closed"

(***************************************************************************)
(* Pipe: setup failures.                                                   *)
(***************************************************************************)
\* Pipe returned because setting up one side failed; the side that failed
SetupFailed == PipeMode /\ pc = "done" /\ ~BothStarted
FailingHandle == IF exe["src"].started # "ok" THEN "src" ELSE "snk"

\* C20: when Pipe has returned after a setup failure, no endpoint opened on
\* the failing handle is still open and no started process is still running
C20_SetupFailureClosesEndpoints ==
    SetupFailed =>
        /\ \A ep \in {"out", "err", "in"} : exe[FailingHandle][ep] # "open"
        /\ \A h \in Handles : proc[h].st # "running"

\* the error recv returned, read off the sink handle: the first step of the
\* sink's setup that did not succeed
SinkSetupErr ==
    CASE exe["snk"].started = "failed" ->
           NewErr(<<"snk", "error starting pipe sink: ", "start failed">>)
      [] exe["snk"].started = "no" /\ exe["snk"].out = "none" ->
           NewErr(<<"snk", "error opening stdout pipe: ", "open failed">>)
      [] exe["snk"].started = "no" /\ exe["snk"].out # "none"
            /\ exe["snk"].err = "none" ->
           NewErr(<<"snk", "error opening stderr pipe: ", "open failed">>)
      [] OTHER ->
           NewErr(<<"snk", "error creating stdin pipe: ", "open failed">>)

\* C21: when sink setup failed after the source's Start succeeded and Pipe
\* has returned, PipeResult.Err is exactly the sink setup error, whatever the
\* cleanup Kill and Wait on the source did, and the three text fields are
\* empty
C21_ErrIsSinkSetupError ==
    (RecvFailedAfterSend /\ pc = "done") =>
        /\ result.Err = SinkSetupErr
        /\ ~result.Err.nil
        /\ result.SrcStderr = <<>>
        /\ result.SnkStderr = <<>>
        /\ result.SnkStdout = <<>>

\* the sink's Start failed; the cleanup Kill had no effect and the cleanup
\* Wait returned the source's own failure, after the source had written to
\* its error-output
C21_Witness ==
    /\ RecvFailedAfterSend /\ pc = "done"
    /\ exe["snk"].started = "failed"
    /\ Called("src", "Kill") /\ ~proc["src"].killed
    /\ proc["src"].exit = "nonzero"
    /\ ~WaitErr("src").nil
    /\ proc["src"].wroteErr # <<>>
    /\ result.Err = NewErr(<<"snk", "error starting pipe sink: ", "start failed">>)

(***************************************************************************)
(* Pipe and the harness: the order of calls on a handle.                   *)
(***************************************************************************)
\* endpoint ep of handle h was opened (it is open, or was closed since)
Opened(h, ep) == exe[h][ep] # "none"

\* a goroutine has read endpoint ep of handle h up to end-of-stream: its
\* io.Copy returned nil
ReadToEnd(h, ep) ==
    \E t \in Tasks \cap ReadingTasks :
       /\ TaskFrom(t) = <<h, ep>>
       /\ task[t].st \notin {"off", "run"}
       /\ task[t].err.nil

\* C13: with no stream fault, once Wait has been invoked on a handle, every
\* output-direction endpoint (output, error-output) opened on that handle has
\* been read to end-of-stream
C13_WaitAfterDrained ==
    faults = 0 =>
        \A h \in Handles :
           Called(h, "Wait") =>
              \A ep \in {"out", "err"} : Opened(h, ep) => ReadToEnd(h, ep)

\* C14: with no stream fault, Kill is never invoked on a handle whose Wait
\* has already returned: every Kill in a handle's call log comes before the
\* return of its Wait
C14_KillBeforeWaitReturns ==
    faults = 0 =>
        \A h \in Handles :
           \A i, j \in 1..Len(exe[h].calls) :
              (exe[h].calls[i] = "WaitRet" /\ exe[h].calls[j] = "Kill") => j < i

(***************************************************************************)
(* The harness: signals, opens and cleanup.                                *)
(***************************************************************************)
\* the drain/feed goroutines harness.run launched
Launched == {t \in Tasks : task[t].st # "off"}
\* those whose completion signal harness.run has received
HReceived == {t \in Tasks : task[t].st \in {"close", "done"}}
\* the endpoints the caller requested
Requested == {ep \in {"out", "err", "in"} : HRequested(ep)}

\* C18: after a successful Start, one goroutine was launched per requested
\* endpoint; the signals received are one per goroutine heard from and never
\* more than were launched; once Wait has been invoked, exactly as many
\* signals as goroutines launched had been received; Wait is invoked at most
\* once, and exactly once when the run has returned
C18_SignalsMatchTasks ==
    (HarnessMode /\ exe["exe"].started = "ok") =>
        /\ Cardinality(Launched) = Cardinality(Requested)
        /\ Len(herrs) = Cardinality(HReceived)
        /\ Len(herrs) <= Cardinality(Launched)
        /\ Called("exe", "Wait") => Len(herrs) = Cardinality(Launched)
        /\ CallCount("exe", "Wait") <= 1
        /\ pc = "done" => CallCount("exe", "Wait") = 1

\* a run with all three goroutines whose feed signalled last
C18_Witness ==
    /\ HRan
    /\ Cardinality(Launched) = 3
    /\ Len(herrs) = 3
    /\ ~herrs[3].nil /\ herrs[1].nil /\ herrs[2].nil
    /\ herrs[3] = task["stdin"].err
    /\ CallCount("exe", "Wait") = 1

\* the open calls made on the handle, in the order they were made
Opens == SelectSeq(exe["exe"].calls,
                   LAMBDA c : c \in {"StdoutPipe", "StderrPipe", "StdinPipe"})
\* the open calls a run makes when none fails: output, error-output, input,
\* each only if requested
AllOpens ==
    (IF hcfg.stdout THEN <<"StdoutPipe">> ELSE <<>>)
    \o (IF hcfg.stderr THEN <<"StderrPipe">> ELSE <<>>)
    \o (IF hcfg.stdin THEN <<"StdinPipe">> ELSE <<>>)
\* harness.run returned because an endpoint open failed
OpenFailed ==
    /\ HarnessMode /\ pc = "done"
    /\ exe["exe"].launched
    /\ Len(Opens) > Cardinality(Launched)

\* C19: the harness opens the requested endpoints in the order output,
\* error-output, input; when an open fails, no endpoint is left open, the
\* error returned is non-nil, and neither Start nor Wait is invoked on the
\* handle
C19_OpenOrderAndCleanup ==
    HarnessMode =>
        /\ Len(Opens) <= Len(AllOpens)
        /\ Opens = SubSeq(AllOpens, 1, Len(Opens))
        /\ OpenFailed =>
              /\ \A ep \in {"out", "err", "in"} : exe["exe"][ep] # "open"
              /\ ~result.err.nil
              /\ ~Called("exe", "Start")
              /\ ~Called("exe", "Wait")

\* the input endpoint failed to open after the other two were opened
C19_Witness ==
    /\ OpenFailed
    /\ exe["exe"].calls = <<"StdoutPipe", "StderrPipe", "StdinPipe">>
    /\ exe["exe"].out = "closed" /\ exe["exe"].err = "closed"
    /\ exe["exe"].in = "none"
    /\ result.err.msg = <<"exe", "error opening stdin pipe: ", "open failed">>

(***************************************************************************)
(* The goroutines and what they own.                                       *)
(***************************************************************************)
\* the drains whose destination the caller gets back: the capture strings of
\* the harness, the three buffers pipe.run reads
CaptureTasks == Tasks \cap {"stdout", "stderr", "srcerr", "snkout", "snkerr"}

\* the caller has been handed the destinations: a harness run has returned,
\* or pipe.run has assembled its PipeResult
HandedOver == pc = "done" /\ (HarnessMode \/ BothStarted)

\* C22: with no stream fault, once the destinations have been handed to the
\* caller, every capture drain that was launched has had its completion
\* signal received, so none can still write its destination
C22_BuffersOwnedUntilSignal ==
    (faults = 0 /\ HandedOver) =>
        \A t \in CaptureTasks : task[t].st \in {"off", "done"}

\* the caller has returned and nothing can move any more: no goroutine, no
\* process
Quiescent ==
    /\ pc = "done"
    /\ IF HarnessMode THEN ~ENABLED NextHarness ELSE ~ENABLED NextPipe

\* C23: with no stream fault, when the caller has returned and nothing can
\* move any more, no drain, feed or copy goroutine is left on the send of
\* its completion signal
C23_NoTaskBlockedOnSend ==
    (faults = 0 /\ Quiescent) => \A t \in Tasks : task[t].st # "send"

\* the feed goroutine's completion signal has been received
FeedSignalled == task["stdin"].st \in {"close", "done"}

\* C24 as stated: once Wait has been invoked on the handle of a run with
\* input, the feed task has closed the input endpoint
C24_Original ==
    (InputRun /\ Called("exe", "Wait")) => exe["exe"].in = "closed"

\* C24 (amended): in a started run with input, Wait is invoked only after
\* the feed's completion signal has been received; the feed closes the input
\* endpoint only after that signal, as a step of its own that may come after
\* Wait is invoked; and the Wait on a process that exits only after reading
\* end-of-input returns only after the feed has closed the endpoint
C24_FeedSignalsBeforeWait ==
    (InputRun /\ exe["exe"].started = "ok") =>
        /\ Called("exe", "Wait") => FeedSignalled
        /\ pipes["exe"].in.wclosed <=> task["stdin"].st = "done"
        /\ ~Called("exe", "WaitRet") =>
              (exe["exe"].in = "closed" <=> task["stdin"].st = "done")
        /\ (Called("exe", "WaitRet") /\ proc["exe"].mode = "cat") =>
              task["stdin"].st = "done"

\* Wait has been invoked while the feed, having delivered the whole input
\* and signalled, has not yet closed the input endpoint
C24_Witness ==
    /\ InputRun
    /\ Called("exe", "Wait") /\ ~Called("exe", "WaitRet")
    /\ task["stdin"].st = "close"
    /\ exe["exe"].in = "open"
    /\ proc["exe"].mode = "cat"
    /\ Len(hcfg.input) = MaxIn
    /\ Fed = hcfg.input

(***************************************************************************)
(* joinerrs: the claims.                                                   *)
(***************************************************************************)
\* the messages of the non-nil errors of a list, in list order
RECURSIVE NonNilMsgs(_)
NonNilMsgs(errs) ==
    IF errs = <<>> THEN <<>>
    ELSE (IF Head(errs).nil THEN <<>> ELSE <<Head(errs).msg>>)
         \o NonNilMsgs(Tail(errs))

\* strings.Join: the messages with sep between each two neighbours
RECURSIVE Joined(_, _)
Joined(sep, ms) ==
    IF ms = <<>> THEN <<>>
    ELSE IF Len(ms) = 1 THEN ms[1]
    ELSE ms[1] \o sep \o Joined(sep, Tail(ms))

RECURSIVE SumLen(_)
SumLen(ms) == IF ms = <<>> THEN 0 ELSE Len(Head(ms)) + SumLen(Tail(ms))

\* C11: joinerrs returns nil exactly when every input is nil; otherwise its
\* message is the messages of the non-nil inputs in list order with the
\* separator between each two neighbours and nowhere else: none omitted, no
\* separator in front or behind
C11_Joinerrs ==
    pc = "joined" =>
        LET ms == NonNilMsgs(werrs) IN
        /\ result.err.nil <=> (\A i \in 1..Len(werrs) : werrs[i].nil)
        /\ ~result.err.nil =>
              /\ result.err.msg = Joined(hcfg.sep, ms)
              /\ Len(result.err.msg) + Len(hcfg.sep)
                    = SumLen(ms) + Len(ms) * Len(hcfg.sep)

C11_Witness ==
    /\ pc = "joined"
    /\ hcfg.sep = <<";", " ">>
    /\ werrs = <<NewErr(<<"b", ";">>), Nil, NewErr(<<"a">>)>>
    /\ result.err = NewErr(<<"b", ";", ";", " ", "a">>)
====
